---- MODULE Spec2Model ----
(***************************************************************************)
(* Model of the liquid-cache-admin dashboard: the execution-plan wire      *)
(* decoders (models/execution_plan.rs and the inline decoder of            *)
(* pages/home.rs), and the plan list / plan selection state of the         *)
(* ExecutionPlans component (components/execution_plans.rs).               *)
(*                                                                         *)
(* JSON text is abstracted by what serde makes of it:                      *)
(*   - a node document is [wf, name, children]: wf = FALSE stands for any  *)
(*     text serde_json cannot turn into an ExecutionPlanNode (bad JSON, a  *)
(*     missing required field); children is the JSON array of the field    *)
(*     "children" (<<>> also stands for an absent field, serde(default));  *)
(*   - an entry of that array is [enc, doc]: enc = "string" is a JSON      *)
(*     string holding the text of doc, enc = "native" is doc embedded as a *)
(*     native JSON value;                                                  *)
(*   - a wire record is [key, json_ok, plan, created_at, stats]: json_ok =  *)
(*     FALSE stands for a value that is no ExecutionPlanResponse; stats is *)
(*     "absent" (no field, or null), "valid" (a string holding the text of *)
(*     an ExecutionStats) or "invalid" (a string holding anything else).   *)
(***************************************************************************)
EXTENDS Integers, Sequences, FiniteSets, TLC

VARIABLES
    \* ---- decoder runs (specification SpecDecode) ----
    batch,              \* the (key, value) pairs handed to the decoders
    parsed,             \* result of parse_execution_plans(batch)
    fetched,            \* result of the decode loop of fetch_execution_plans on batch
    doc,                \* a node document handed to serde_json::from_str::<ExecutionPlanNode>
    node,               \* its result
    \* ---- the page (specification Spec) ----
    execution_plans,    \* home.rs:75 signal, Option<Vec<plan>>
    selected_plan_id,   \* execution_plans.rs:410 signal, "" = nothing selected
    effect_pending,     \* the auto-select Effect is scheduled to run
    in_flight,          \* ids of the /execution_plans requests not yet resolved
    next_req,           \* number of requests dispatched so far
    toast_calls,        \* toast.show_* calls made by the handler that ran last
    crashed,            \* a handler has panicked (what runs afterwards is left open)
    \* ---- the rest of the dashboard (specification SpecDashboard) ----
    cache_usage,        \* home.rs:65 signal, Option<ParquetCacheUsage>
    cache_info,         \* home.rs:66 signal, Option<CacheInfo>
    system_info,        \* home.rs:67 signal, Option<SystemInfo>
    trace_active,       \* home.rs:69 signal
    pending,            \* per endpoint, the number of its requests not yet resolved
    clicks,             \* clicks on the buttons of the Home view so far
    torn_down,          \* the view has been unmounted (its Owner cleaned up)
    aborted,            \* the abort signals of the requests in flight have fired
    \* ---- the server address and the requests in flight (specification SpecConnect) ----
    server_address,     \* home.rs:64 signal
    sent_to,            \* per /execution_plans request, the address it was sent to
    pending_to,         \* per endpoint and address, the number of requests not yet resolved
    origin,             \* (history) per display item, the address its value came from
    connected,          \* (history) the address at the latest Connect click
    resolved_from,      \* (history) the address of the request resolved last
    \* ---- the metrics of a rendered node (specification SpecFormat) ----
    metrics,            \* node.metrics: HashMap<String, String>
    iteration,          \* the order in which node.metrics.iter() yields the keys
    all_metrics,        \* execution_plans.rs:116-132: the (label, value) pairs displayed
    \* ---- the view of a plan tree (specification SpecRender) ----
    rendered_plan,      \* the node handed to ExecutionPlanNodeComponent
    node_view,          \* the view it returns
    \* ---- the schema toggles of the plan view (specification SpecToggle) ----
    expanded,           \* execution_plans.rs:111 signal of each mounted node, by path
    toggled,            \* (history) the nodes whose toggle was clicked an odd number of times
    \* ---- the display name of a plan (specification SpecName) ----
    named_plan,         \* the ExecutionPlan display_name is called on
    shown_name,         \* what the call returns
    \* ---- the toasts (specification SpecToast) ----
    toasts,             \* toast.rs:75 signal, HashMap<Uuid, Toast>
    add_toast,          \* toast.rs:76 signal, Option<Toast>
    remove_toast,       \* toast.rs:77 signal, Option<Uuid>
    add_effect_pending,     \* the Effect of toast.rs:88 is scheduled to run
    remove_effect_pending,  \* the Effect of toast.rs:110 is scheduled to run
    timers,             \* ids of the toasts whose timeout task is waiting (toast.rs:99-102)
    next_toast,         \* number of Toasts created so far (ids are 1, 2, ..)
    inserted,           \* (history) ids of the toasts that were inserted into the map
    \* ---- history (what happened, kept to state the properties) ----
    op,                 \* name of the step taken last
    last_status,        \* how the request resolved last ended on the network
    last_response,      \* payload of the most recently resolved successful response
    refresh_req,        \* request dispatched by the latest Refresh click
    pre_refresh_sel,    \* selection at that click ("" when void)
    keep_expected,      \* selection the latest Refresh response should have kept
    fallback_expected,  \* the latest list replacement found the selection absent
    picked              \* manual pick in force: [some, v]

dvars == <<batch, parsed, fetched, doc, node>>
pvars == <<execution_plans, selected_plan_id, effect_pending, in_flight, next_req,
           toast_calls, crashed>>
mvars == <<metrics, iteration, all_metrics>>
rvars == <<rendered_plan, node_view>>
evars == <<expanded, toggled>>
\* the variables of the components
nvars == <<named_plan, shown_name>>
wvars == <<toasts, add_toast, remove_toast, add_effect_pending, remove_effect_pending, timers,
           next_toast, inserted>>
ovars == <<nvars, wvars>>
cvars == <<mvars, rvars, evars, ovars>>
fvars == <<cache_usage, cache_info, system_info, trace_active, pending, clicks>>
tvars == <<torn_down, aborted>>
avars == <<server_address, sent_to, pending_to, origin, connected, resolved_from>>
hvars == <<op, last_status, last_response, refresh_req, pre_refresh_sel, keep_expected,
           fallback_expected, picked>>
vars == <<dvars, pvars, fvars, tvars, avars, cvars, hvars>>

(***************************************************************************)
(* Bounds                                                                  *)
(***************************************************************************)
MaxBatch == 3       \* records per batch in the decoder runs
MaxTime == 2        \* created_at values 1..MaxTime are representable timestamps
MaxChildren == 2    \* entries of a "children" array
MaxRequests == 2    \* /execution_plans requests dispatched in one run
MaxClicks == 2      \* clicks on the buttons of the Home view in one run
MaxMetrics == 3     \* entries of the metrics map of a node
MaxNodes == 7       \* nodes of a rendered plan tree
MaxIdLen == 9       \* characters of a plan id
MaxToasts == 3      \* toasts created in a run

Keys == {"a", "b", "c"}
UiKeys == {"a", "b"}

\* created_at values: 1..MaxTime, and one value chrono cannot represent
InvalidTime == MaxTime + 1
Times == 1..InvalidTime

(***************************************************************************)
(* Inputs: node documents and wire records                                 *)
(***************************************************************************)
SeqsUpTo(S, n) == UNION {[1..k -> S] : k \in 0..n}

Garbage == [wf |-> FALSE, name |-> "", children |-> <<>>]
Leaf(n) == [wf |-> TRUE, name |-> n, children |-> <<>>]
LeafDocs == {Leaf("A"), Leaf("B"), Garbage}
Entries(docs) == {[enc |-> e, doc |-> d] : e \in {"string", "native"}, d \in docs}
MidDocs ==
    LeafDocs \cup {[wf |-> TRUE, name |-> "M", children |-> <<e>>] : e \in Entries(LeafDocs)}
TopDocs ==
    {[wf |-> TRUE, name |-> "T", children |-> c] :
        c \in SeqsUpTo(Entries(MidDocs), MaxChildren)}

PlanDocs == {Leaf("A"), Garbage}
StatsTexts == {"absent", "valid", "invalid"}
\* (the stats field takes its three values on the records whose plan and
\* created_at decode: the decoders read it on no other record)
Shapes ==
    {[json_ok |-> FALSE, plan |-> Garbage, created_at |-> 1, stats |-> "absent"]}
    \cup {[json_ok |-> TRUE, plan |-> p, created_at |-> t, stats |-> "absent"] :
            p \in PlanDocs, t \in Times}
    \cup {[json_ok |-> TRUE, plan |-> Leaf("A"), created_at |-> t, stats |-> st] :
            t \in 1..MaxTime, st \in StatsTexts}
Records(keys) ==
    {[key |-> k, json_ok |-> s.json_ok, plan |-> s.plan, created_at |-> s.created_at,
      stats |-> s.stats] : k \in keys, s \in Shapes}
DistinctKeys(b) == \A i, j \in DOMAIN b : i # j => b[i].key # b[j].key
\* (keys are distinct, so a batch holds at most one record per key)
MaxDistinct == IF MaxBatch < Cardinality(Keys) THEN MaxBatch ELSE Cardinality(Keys)
Batches == {b \in SeqsUpTo(Records(Keys), MaxDistinct) : DistinctKeys(b)}
\* payloads of the page's requests: a record that is no JSON, a good record at each
\* representable time, a good record whose created_at is not representable (the
\* page's decoder has no stats field, home.rs:27-33)
UiShapes ==
    {s \in Shapes : /\ s.stats = "absent"
                    /\ s.json_ok => s.plan = Leaf("A") /\ s.created_at \in {1, 2, InvalidTime}}
UiRecords ==
    {[key |-> k, json_ok |-> s.json_ok, plan |-> s.plan, created_at |-> s.created_at,
      stats |-> s.stats] : k \in UiKeys, s \in UiShapes}
UiBatches == {b \in SeqsUpTo(UiRecords, Cardinality(UiKeys)) : DistinctKeys(b)}

(***************************************************************************)
(* models/execution_plan.rs: the node decoder                              *)
(***************************************************************************)
NoNode == [name |-> "", children |-> <<>>]

RECURSIVE from_str_ExecutionPlanNode(_)
RECURSIVE push_children(_, _)

\* the for loop of deserialize_children: a child string that fails to parse is
\* logged and not pushed
push_children(children_strings, children) ==
    IF children_strings = <<>> THEN children
    ELSE LET child == from_str_ExecutionPlanNode(Head(children_strings).doc)
         IN push_children(Tail(children_strings),
                          IF child.ok THEN Append(children, child.node) ELSE children)

\* Vec::<String>::deserialize(deserializer)? fails on an entry that is no JSON string
deserialize_children(entries) ==
    IF \E i \in DOMAIN entries : entries[i].enc # "string"
    THEN [ok |-> FALSE, children |-> <<>>]
    ELSE [ok |-> TRUE, children |-> push_children(entries, <<>>)]

\* serde_json::from_str::<ExecutionPlanNode>
from_str_ExecutionPlanNode(d) ==
    IF ~d.wf THEN [ok |-> FALSE, node |-> NoNode]
    ELSE LET c == deserialize_children(d.children)
         IN IF c.ok THEN [ok |-> TRUE, node |-> [name |-> d.name, children |-> c.children]]
            ELSE [ok |-> FALSE, node |-> NoNode]

(***************************************************************************)
(* The two batch decoders                                                  *)
(***************************************************************************)
\* Utc.timestamp_opt(created_at as i64, 0) is LocalResult::Single
timestamp_opt_single(created_at) == created_at \in 1..MaxTime

\* (mutant) an unstable sort: the later of two equal records comes first
insert_desc_unstable(sorted, x) ==
    LET k == Cardinality({i \in DOMAIN sorted : sorted[i].created_at > x.created_at})
    IN SubSeq(sorted, 1, k) \o <<x>> \o SubSeq(sorted, k + 1, Len(sorted))

\* Vec::sort_by(|a, b| b.created_at.cmp(&a.created_at)): stable, descending
insert_desc(sorted, x) ==
    LET k == Cardinality({i \in DOMAIN sorted : sorted[i].created_at >= x.created_at})
    IN SubSeq(sorted, 1, k) \o <<x>> \o SubSeq(sorted, k + 1, Len(sorted))

RECURSIVE sort_fold(_, _)
sort_fold(rest, sorted) ==
    IF rest = <<>> THEN sorted ELSE sort_fold(Tail(rest), insert_desc(sorted, Head(rest)))

sort_by_created_at_desc(plans) == sort_fold(plans, <<>>)

\* (mutant) a stats string that fails to parse still yields stats
parse_stats_keeps_invalid(stats_json) == IF stats_json = "absent" THEN "none" ELSE "some"

\* execution_plan.rs:131-146: Option<ExecutionStats> made of the stats field; a
\* string that is no ExecutionStats is logged and gives None
parse_stats(stats_json) == IF stats_json = "valid" THEN "some" ELSE "none"

RECURSIVE parse_loop(_, _)
parse_loop(rest, plans) ==
    IF rest = <<>> THEN [ok |-> TRUE, plans |-> sort_by_created_at_desc(plans), err |-> ""]
    ELSE LET r == Head(rest)
             plan_node == from_str_ExecutionPlanNode(r.plan)
         IN IF ~r.json_ok THEN [ok |-> FALSE, plans |-> <<>>, err |-> r.key]
            ELSE IF ~plan_node.ok THEN [ok |-> FALSE, plans |-> <<>>, err |-> r.key]
            ELSE IF ~timestamp_opt_single(r.created_at)
                 THEN [ok |-> FALSE, plans |-> <<>>, err |-> r.key]
            ELSE parse_loop(Tail(rest),
                            Append(plans, [id |-> r.key, plan |-> plan_node.node,
                                           created_at |-> r.created_at,
                                           stats |-> parse_stats(r.stats)]))

\* models/execution_plan.rs: parse_execution_plans
parse_execution_plans(response) == parse_loop(response, <<>>)

\* home.rs:185-188: the sorted tuples without their created_at
drop_created_at(plans) == [i \in DOMAIN plans |-> [id |-> plans[i].id, plan |-> plans[i].plan]]

RECURSIVE fetch_loop(_, _, _)
fetch_loop(rest, plans, errors) ==
    IF rest = <<>>
    THEN [panic |-> FALSE, plans |-> drop_created_at(sort_by_created_at_desc(plans)),
          errors |-> errors]
    ELSE LET r == Head(rest)
             plan == from_str_ExecutionPlanNode(r.plan)
         IN IF ~r.json_ok THEN fetch_loop(Tail(rest), plans, Append(errors, r.key))
            ELSE IF ~plan.ok THEN fetch_loop(Tail(rest), plans, Append(errors, r.key))
            ELSE IF ~timestamp_opt_single(r.created_at)
                 THEN [panic |-> TRUE, plans |-> <<>>, errors |-> errors]
            ELSE fetch_loop(Tail(rest),
                            Append(plans, [id |-> r.key, plan |-> plan.node,
                                           created_at |-> r.created_at]),
                            errors)

\* home.rs: the Ok(response) arm of fetch_execution_plans, up to the signal write
decode_response(response) == fetch_loop(response, <<>>, <<>>)

(***************************************************************************)
(* The page: home.rs fetch_execution_plans and the ExecutionPlans component*)
(***************************************************************************)
None == [some |-> FALSE, v |-> <<>>]
Some(x) == [some |-> TRUE, v |-> x]
NoPick == [some |-> FALSE, v |-> ""]

NoInfo == [some |-> FALSE, v |-> ""]
\* body of a response of /parquet_cache_usage, /cache_info, /system_info
InfoPayloads == {"p"}
InfoEndpoints == {"parquet_cache_usage", "cache_info", "system_info"}
TraceEndpoints == {"start_trace", "stop_trace"}
ControlEndpoints == {"reset_cache", "shutdown", "cache_stats"}
Endpoints == InfoEndpoints \cup TraceEndpoints \cup ControlEndpoints
\* values of the server address input; the first is the address at start
Addresses == {"s1", "s2"}
DisplayItems == InfoEndpoints \cup {"execution_plans"}
\* how a request that fetch_api reports as Ok, or as Err, ended on the network:
\* "2xx", or "failed" (no response: refused, timed out, aborted; or a response
\* of another status).  send() resolves for any HTTP status and the status is
\* never examined (utils.rs:87-91), so Ok is a body that is JSON of the
\* expected type under any status; Err is a send that failed, or a body that is
\* no such JSON under any status
OkStatuses == {"2xx", "failed"}
ErrStatuses == {"failed", "2xx"}

Ids(plans) == {plans[i].id : i \in DOMAIN plans}

\* (mutant) the Effect without its "selected plan no longer exists" test
auto_select_only_when_empty(plans, current_selected) ==
    IF plans.some /\ plans.v # <<>> /\ current_selected = ""
    THEN plans.v[1].id
    ELSE current_selected

\* (mutant) the Effect selecting the first plan whatever is selected
auto_select_always_first(plans, current_selected) ==
    IF plans.some /\ plans.v # <<>> THEN plans.v[1].id ELSE current_selected

\* execution_plans.rs:413-425: the value the auto-select Effect leaves in
\* selected_plan_id
auto_select(plans, current_selected) ==
    IF plans.some /\ plans.v # <<>>
       /\ (current_selected = "" \/ current_selected \notin Ids(plans.v))
    THEN plans.v[1].id
    ELSE current_selected

\* execution_plans.rs:439-455: the values of the <option>s of the selector
option_values(plans) == {""} \cup (IF plans.some THEN Ids(plans.v) ELSE {})

InitDecode ==
    /\ batch = <<>>
    /\ parsed = parse_execution_plans(<<>>)
    /\ fetched = decode_response(<<>>)
    /\ doc = Leaf("A")
    /\ node = from_str_ExecutionPlanNode(Leaf("A"))

InitPage ==
    /\ execution_plans = None
    /\ selected_plan_id = ""
    /\ effect_pending = TRUE
    /\ in_flight = {}
    /\ next_req = 0
    /\ toast_calls = <<>>
    /\ crashed = FALSE

InitDashboard ==
    /\ cache_usage = NoInfo
    /\ cache_info = NoInfo
    /\ system_info = NoInfo
    /\ trace_active = FALSE
    /\ pending = [e \in Endpoints |-> 0]
    /\ clicks = 0
    /\ torn_down = FALSE
    /\ aborted = FALSE

InitConnect ==
    /\ server_address = "s1"
    /\ sent_to = <<>>
    /\ pending_to = [e \in Endpoints |-> [a \in Addresses |-> 0]]
    /\ origin = [i \in DisplayItems |-> "none"]
    /\ connected = "none"
    /\ resolved_from = "none"

InitHistory ==
    /\ op = "init"
    /\ last_status = "none"
    /\ last_response = None
    /\ refresh_req = 0
    /\ pre_refresh_sel = ""
    /\ keep_expected = ""
    /\ fallback_expected = FALSE
    /\ picked = NoPick

InitMetrics ==
    /\ metrics = <<>>
    /\ iteration = <<>>
    /\ all_metrics = <<>>

NoView == [name |-> <<>>, line_down |-> FALSE, children |-> <<>>]

InitRender ==
    /\ rendered_plan = [name |-> <<>>, children |-> <<>>]
    /\ node_view = NoView

\* the paths of the nodes of a plan tree
RECURSIVE NodePaths(_)
NodePaths(n) ==
    {<<>>} \cup UNION {{<<i>> \o q : q \in NodePaths(n.children[i])} : i \in DOMAIN n.children}

\* execution_plans.rs:470-574: the plan view closure runs again whenever
\* execution_plans or selected_plan_id is written; when it finds the selected
\* plan it builds a new ExecutionPlanNodeComponent for each of its nodes, each
\* with a new signal(true) (execution_plans.rs:111), and the components of the
\* previous run are disposed of.  (Every node is taken to have a schema: the
\* toggle of a node without one is not rendered.)
mount(plans, selected_id) ==
    IF plans.some /\ selected_id # "" /\ selected_id \in Ids(plans.v)
    THEN [q \in NodePaths(plans.v[CHOOSE i \in DOMAIN plans.v : plans.v[i].id = selected_id].plan)
            |-> TRUE]
    ELSE <<>>

InitToggle ==
    /\ expanded = <<>>
    /\ toggled = {}

\* toast.rs:75-77; the two Effects run once when they are created and find None
InitToast ==
    /\ toasts = <<>>
    /\ add_toast = None
    /\ remove_toast = None
    /\ add_effect_pending = FALSE
    /\ remove_effect_pending = FALSE
    /\ timers = {}
    /\ next_toast = 0
    /\ inserted = {}

NoText == [panic |-> FALSE, text |-> <<>>]

InitName ==
    /\ named_plan = [id |-> <<>>, stats |-> None, formatted_time |-> ""]
    /\ shown_name = NoText

Init ==
    /\ InitDecode /\ InitPage /\ InitDashboard /\ InitConnect /\ InitMetrics /\ InitRender
    /\ InitToggle /\ InitName /\ InitToast /\ InitHistory

\* (mutant) a dispatch that is dropped while a request is in flight
dispatch_fetch_coalesced ==
    /\ next_req' = next_req + 1
    /\ in_flight' = IF in_flight = {} THEN {next_req + 1} ELSE in_flight
    /\ sent_to' = Append(sent_to, server_address)

\* Action::dispatch of fetch_execution_plans (home.rs:139-148): one more request
\* in flight, to the address read at the dispatch (home.rs:142)
dispatch_fetch_execution_plans ==
    /\ next_req' = next_req + 1
    /\ in_flight' = in_flight \cup {next_req + 1}
    /\ sent_to' = Append(sent_to, server_address)

\* execution_plans.rs:457-463: the Refresh button
RefreshClick ==
    /\ ~torn_down
    /\ next_req < MaxRequests
    /\ dispatch_fetch_execution_plans
    /\ selected_plan_id' = ""
    /\ effect_pending' = TRUE
    /\ op' = "refresh_click"
    /\ refresh_req' = next_req + 1
    /\ pre_refresh_sel' = selected_plan_id
    /\ keep_expected' = ""
    /\ fallback_expected' = FALSE
    /\ picked' = NoPick
    /\ expanded' = mount(execution_plans, "")
    /\ UNCHANGED <<dvars, mvars, rvars, ovars, toggled, fvars, tvars, execution_plans, toast_calls,
                   crashed, last_status, last_response>>
    /\ UNCHANGED <<server_address, pending_to, origin, connected, resolved_from>>

\* Action::dispatch of one of the other fetch actions (home.rs:78-137, 200-240)
dispatch(endpoints) ==
    /\ pending' = [e \in Endpoints |-> IF e \in endpoints THEN pending[e] + 1 ELSE pending[e]]
    /\ pending_to' = [e \in Endpoints |->
                        IF e \in endpoints
                        THEN [pending_to[e] EXCEPT ![server_address] = @ + 1]
                        ELSE pending_to[e]]

\* the request of endpoint e sent to address a completes
settle(e, a) ==
    /\ pending_to[e][a] > 0
    /\ pending' = [pending EXCEPT ![e] = @ - 1]
    /\ pending_to' = [pending_to EXCEPT ![e][a] = @ - 1]
    /\ resolved_from' = a

\* home.rs:302-307, 318-328: the Connect button (fetch_all_data)
ConnectClick ==
    /\ ~torn_down
    /\ next_req < MaxRequests
    /\ clicks < MaxClicks
    /\ clicks' = clicks + 1
    /\ dispatch(InfoEndpoints)
    /\ dispatch_fetch_execution_plans
    /\ op' = "connect_click"
    /\ UNCHANGED <<cache_usage, cache_info, system_info, trace_active, tvars, last_status>>
    /\ UNCHANGED <<dvars, cvars, execution_plans, selected_plan_id, effect_pending, toast_calls,
                   crashed, last_response, refresh_req, pre_refresh_sel, keep_expected,
                   fallback_expected, picked>>
    /\ connected' = server_address
    /\ UNCHANGED <<server_address, origin, resolved_from>>

\* home.rs:149-190: fetch_api returns Ok(response); status is how the request
\* ended on the network
ResolveOk(r, status, response) ==
    \E d \in {decode_response(response)} :
       /\ r \in in_flight
       /\ ~aborted
       /\ status \in OkStatuses
       /\ last_status' = status
       /\ in_flight' = in_flight \ {r}
       /\ toast_calls' = d.errors
       /\ crashed' = (crashed \/ d.panic)
       /\ execution_plans' = IF d.panic THEN execution_plans ELSE Some(d.plans)
       /\ effect_pending' = IF d.panic THEN effect_pending ELSE TRUE
       /\ op' = "resolve_ok"
       /\ last_response' = Some(response)
       \* (kept only for a response that finds the page settled: the Effect
       \* scheduled by the click has run before the response arrives)
       /\ keep_expected' =
            IF ~d.panic /\ r = refresh_req /\ ~effect_pending /\ pre_refresh_sel # ""
               /\ pre_refresh_sel \in Ids(d.plans)
            THEN pre_refresh_sel ELSE ""
       /\ fallback_expected' =
            (~d.panic /\ d.plans # <<>> /\ selected_plan_id \notin Ids(d.plans))
       /\ picked' = NoPick
       /\ expanded' = IF d.panic THEN expanded
                      ELSE mount(Some(d.plans), selected_plan_id)
       /\ UNCHANGED <<dvars, mvars, rvars, ovars, toggled, fvars, tvars, selected_plan_id, next_req,
                      refresh_req, pre_refresh_sel>>
       /\ origin' = IF d.panic THEN origin
                    ELSE [origin EXCEPT !["execution_plans"] = sent_to[r]]
       /\ resolved_from' = sent_to[r]
       /\ UNCHANGED <<server_address, sent_to, pending_to, connected>>

\* home.rs:191-194: fetch_api returns Err (no response, or a body that is no
\* JSON of the expected type)
ResolveErr(r, status) ==
    /\ r \in in_flight
    /\ in_flight' = in_flight \ {r}
    /\ status \in ErrStatuses
    /\ aborted => status = "failed"
    /\ last_status' = status
    /\ toast_calls' = <<"Failed to fetch execution plans">>
    /\ op' = "resolve_err"
    /\ UNCHANGED <<dvars, cvars, fvars, tvars, execution_plans, selected_plan_id, effect_pending, next_req,
                   crashed, last_response, refresh_req, pre_refresh_sel, keep_expected,
                   fallback_expected, picked>>
    /\ resolved_from' = sent_to[r]
    /\ UNCHANGED <<server_address, sent_to, pending_to, origin, connected>>

\* execution_plans.rs:432-438: the user picks an <option> of the selector
SelectChange(value) ==
    /\ ~torn_down
    /\ value \in option_values(execution_plans)
    /\ selected_plan_id' = value
    /\ effect_pending' = TRUE
    /\ op' = "select_change"
    /\ picked' = Some(value)
    /\ pre_refresh_sel' = ""
    /\ keep_expected' = ""
    /\ fallback_expected' = FALSE
    /\ expanded' = mount(execution_plans, value)
    /\ UNCHANGED <<dvars, mvars, rvars, ovars, toggled, fvars, tvars, execution_plans, in_flight,
                   next_req, toast_calls, crashed, last_status, last_response, refresh_req>>
    /\ UNCHANGED avars

\* execution_plans.rs:413-425: the auto-select Effect runs; a write to
\* selected_plan_id notifies the Effect itself, which reads it
AutoSelectEffect ==
    /\ ~torn_down
    /\ effect_pending
    /\ selected_plan_id' = auto_select(execution_plans, selected_plan_id)
    /\ effect_pending' = (selected_plan_id' # selected_plan_id)
    /\ op' = "effect"
    /\ expanded' = IF selected_plan_id' # selected_plan_id
                   THEN mount(execution_plans, selected_plan_id')
                   ELSE expanded
    /\ UNCHANGED <<dvars, mvars, rvars, ovars, toggled, fvars, tvars, execution_plans, in_flight,
                   next_req, toast_calls, crashed, last_status, last_response, refresh_req,
                   pre_refresh_sel, keep_expected, fallback_expected, picked>>
    /\ UNCHANGED avars

\* execution_plans.rs:309-312: the Schema button of the node at path q of the
\* plan on display
ToggleClick(q) ==
    /\ ~torn_down
    /\ q \in DOMAIN expanded
    /\ expanded' = [expanded EXCEPT ![q] = ~@]
    /\ toggled' = IF <<selected_plan_id, q>> \in toggled
                  THEN toggled \ {<<selected_plan_id, q>>}
                  ELSE toggled \cup {<<selected_plan_id, q>>}
    /\ op' = "toggle_click"
    /\ UNCHANGED <<dvars, pvars, fvars, tvars, mvars, rvars, ovars, last_status, last_response,
                   refresh_req, pre_refresh_sel, keep_expected, fallback_expected, picked>>
    /\ UNCHANGED avars

Next ==
    \/ RefreshClick
    \/ ConnectClick
    \/ \E r \in in_flight, response \in UiBatches : ResolveOk(r, "2xx", response)
    \/ \E r \in in_flight : ResolveErr(r, "failed")
    \/ \E value \in {""} \cup UiKeys : SelectChange(value)
    \/ AutoSelectEffect

Spec == Init /\ [][Next]_vars

(***************************************************************************)
(* The rest of the dashboard: the other fetch actions of home.rs, the      *)
(* trace buttons, and the unmounting of the view                           *)
(***************************************************************************)
\* the argument of toast.show_error in the Err arm of each action
ErrorText(e) ==
    CASE e = "parquet_cache_usage" -> "Failed to fetch cache usage"
      [] e = "cache_info" -> "Failed to fetch cache info"
      [] e = "system_info" -> "Failed to fetch system info"
      [] e = "start_trace" -> "Failed to start trace"
      [] e = "stop_trace" -> "Failed to stop trace"
      [] e = "reset_cache" -> "Failed to reset cache"
      [] e = "shutdown" -> "Failed to shutdown server"
      [] e = "cache_stats" -> "Failed to get cache stats"

\* set_cache_usage / set_cache_info / set_system_info .set(v)
set_info(e, v) ==
    /\ cache_usage' = IF e = "parquet_cache_usage" THEN v ELSE cache_usage
    /\ cache_info' = IF e = "cache_info" THEN v ELSE cache_info
    /\ system_info' = IF e = "system_info" THEN v ELSE system_info

\* home.rs:376-381: the refresh button of the system info panel
SystemInfoRefreshClick ==
    /\ ~torn_down
    /\ clicks < MaxClicks
    /\ clicks' = clicks + 1
    /\ dispatch({"system_info"})
    /\ op' = "system_info_refresh_click"
    /\ UNCHANGED <<dvars, cvars, pvars, tvars, cache_usage, cache_info, system_info, trace_active,
                   last_status, last_response, refresh_req, pre_refresh_sel, keep_expected,
                   fallback_expected, picked>>
    /\ UNCHANGED <<server_address, sent_to, origin, connected, resolved_from>>

\* home.rs:383-391: the refresh button of the cache info panel
CacheInfoRefreshClick ==
    /\ ~torn_down
    /\ clicks < MaxClicks
    /\ clicks' = clicks + 1
    /\ dispatch({"cache_info", "parquet_cache_usage"})
    /\ op' = "cache_info_refresh_click"
    /\ UNCHANGED <<dvars, cvars, pvars, tvars, cache_usage, cache_info, system_info, trace_active,
                   last_status, last_response, refresh_req, pre_refresh_sel, keep_expected,
                   fallback_expected, picked>>
    /\ UNCHANGED <<server_address, sent_to, origin, connected, resolved_from>>

\* home.rs:446-456: the Start Trace button, rendered while trace_active is false
StartTraceClick ==
    /\ ~torn_down
    /\ ~trace_active
    /\ clicks < MaxClicks
    /\ clicks' = clicks + 1
    /\ dispatch({"start_trace"})
    /\ op' = "start_trace_click"
    /\ UNCHANGED <<dvars, cvars, pvars, tvars, cache_usage, cache_info, system_info, trace_active,
                   last_status, last_response, refresh_req, pre_refresh_sel, keep_expected,
                   fallback_expected, picked>>
    /\ UNCHANGED <<server_address, sent_to, origin, connected, resolved_from>>

\* home.rs:434-445: the Stop Trace button, rendered while trace_active is true
StopTraceClick ==
    /\ ~torn_down
    /\ trace_active
    /\ clicks < MaxClicks
    /\ clicks' = clicks + 1
    /\ dispatch({"stop_trace"})
    /\ op' = "stop_trace_click"
    /\ UNCHANGED <<dvars, cvars, pvars, tvars, cache_usage, cache_info, system_info, trace_active,
                   last_status, last_response, refresh_req, pre_refresh_sel, keep_expected,
                   fallback_expected, picked>>
    /\ UNCHANGED <<server_address, sent_to, origin, connected, resolved_from>>

\* home.rs:88-90, 107-110, 128-130: the Ok arm of fetch_cache_usage,
\* fetch_cache_info, fetch_system_info
ResolveInfoOk(e, payload) ==
    /\ \E a \in Addresses : settle(e, a) /\ origin' = [origin EXCEPT ![e] = a]
    /\ ~aborted
    /\ set_info(e, Some(payload))
    /\ toast_calls' = <<>>
    /\ \E status \in OkStatuses : last_status' = status
    /\ op' = "resolve_info_ok"
    /\ UNCHANGED <<dvars, cvars, tvars, execution_plans, selected_plan_id, effect_pending, in_flight,
                   next_req, crashed, trace_active, clicks, last_response, refresh_req,
                   pre_refresh_sel, keep_expected, fallback_expected, picked>>
    /\ UNCHANGED <<server_address, sent_to, connected>>

\* home.rs:91-93, 111-114, 131-133: their Err arm
ResolveInfoErr(e) ==
    /\ \E a \in Addresses : settle(e, a)
    /\ toast_calls' = <<ErrorText(e)>>
    /\ \E status \in ErrStatuses : (aborted => status = "failed") /\ last_status' = status
    /\ op' = "resolve_info_err"
    /\ UNCHANGED <<dvars, cvars, tvars, execution_plans, selected_plan_id, effect_pending, in_flight,
                   next_req, crashed, cache_usage, cache_info, system_info, trace_active,
                   clicks, last_response, refresh_req, pre_refresh_sel, keep_expected,
                   fallback_expected, picked>>
    /\ UNCHANGED <<server_address, sent_to, origin, connected>>

\* home.rs:208-211, 230-233: the Ok arm of start_trace, stop_trace
ResolveTraceOk(e) ==
    /\ \E a \in Addresses : settle(e, a)
    /\ ~aborted
    /\ toast_calls' = <<"response.message">>
    /\ trace_active' = (e = "start_trace")
    /\ \E status \in OkStatuses : last_status' = status
    /\ op' = "resolve_trace_ok"
    /\ UNCHANGED <<dvars, cvars, tvars, execution_plans, selected_plan_id, effect_pending, in_flight,
                   next_req, crashed, cache_usage, cache_info, system_info, clicks,
                   last_response, refresh_req, pre_refresh_sel, keep_expected,
                   fallback_expected, picked>>
    /\ UNCHANGED <<server_address, sent_to, origin, connected>>

\* home.rs:212-214, 234-236: their Err arm
ResolveTraceErr(e) ==
    /\ \E a \in Addresses : settle(e, a)
    /\ toast_calls' = <<ErrorText(e)>>
    /\ \E status \in ErrStatuses : (aborted => status = "failed") /\ last_status' = status
    /\ op' = "resolve_trace_err"
    /\ UNCHANGED <<dvars, cvars, tvars, execution_plans, selected_plan_id, effect_pending, in_flight,
                   next_req, crashed, cache_usage, cache_info, system_info, trace_active,
                   clicks, last_response, refresh_req, pre_refresh_sel, keep_expected,
                   fallback_expected, picked>>
    /\ UNCHANGED <<server_address, sent_to, origin, connected>>

\* (mutant) a cleanup that aborts nothing
on_cleanup_no_abort == FALSE

\* utils.rs:79-83: the cleanup every fetch_api call registers aborts its request
on_cleanup_abort == TRUE

\* the view is unmounted (navigation away from the page): the cleanups of its
\* Owner run
Teardown ==
    /\ ~torn_down
    /\ torn_down' = TRUE
    /\ aborted' = on_cleanup_abort
    /\ op' = "teardown"
    /\ UNCHANGED <<dvars, cvars, pvars, fvars, last_status, last_response, refresh_req,
                   pre_refresh_sel, keep_expected, fallback_expected, picked>>
    /\ UNCHANGED avars

\* payloads of /execution_plans in the runs of the whole dashboard: the empty
\* batch and a batch of one record that decodes
DashBatches ==
    {b \in UiBatches :
        Len(b) <= 1 /\ \A i \in DOMAIN b : b[i].key = "a" /\ b[i].json_ok /\ b[i].created_at = 1}

NextDashboard ==
    \/ ConnectClick
    \/ SystemInfoRefreshClick
    \/ CacheInfoRefreshClick
    \/ StartTraceClick
    \/ StopTraceClick
    \/ \E r \in in_flight, status \in OkStatuses, response \in DashBatches :
            ResolveOk(r, status, response)
    \/ \E r \in in_flight, status \in ErrStatuses : ResolveErr(r, status)
    \/ \E e \in InfoEndpoints, payload \in InfoPayloads : ResolveInfoOk(e, payload)
    \/ \E e \in InfoEndpoints : ResolveInfoErr(e)
    \/ \E e \in TraceEndpoints : ResolveTraceOk(e)
    \/ \E e \in TraceEndpoints : ResolveTraceErr(e)
    \/ Teardown

SpecDashboard == Init /\ [][NextDashboard]_vars

(***************************************************************************)
(* The server address input and the control buttons (Reset Cache,          *)
(* Shutdown Server, Export Statistics)                                     *)
(***************************************************************************)
\* home.rs:354-362: the user edits the server address; nothing is fetched
AddressInput(a) ==
    /\ ~torn_down
    /\ a \in Addresses \ {server_address}
    /\ server_address' = a
    /\ op' = "address_input"
    /\ UNCHANGED <<dvars, pvars, fvars, tvars, cvars, sent_to, pending_to, origin, connected,
                   resolved_from, last_status, last_response, refresh_req, pre_refresh_sel,
                   keep_expected, fallback_expected, picked>>

\* the name of the step in which the button of endpoint e is pressed
ClickOp(e) ==
    CASE e = "reset_cache" -> "reset_cache_click"
      [] e = "shutdown" -> "shutdown_click"
      [] e = "cache_stats" -> "cache_stats_click"
      [] e = "start_trace" -> "start_trace_click"
      [] e = "stop_trace" -> "stop_trace_click"

\* cache_info.rs:190-205, home.rs:496-503: the Reset Cache, Shutdown Server and
\* Export Statistics buttons dispatch reset_cache, shutdown_server,
\* get_cache_stats
ControlClick(e) ==
    /\ ~torn_down
    /\ e \in ControlEndpoints
    /\ clicks < MaxClicks
    /\ clicks' = clicks + 1
    /\ dispatch({e})
    /\ op' = ClickOp(e)
    /\ UNCHANGED <<dvars, cvars, pvars, tvars, cache_usage, cache_info, system_info, trace_active,
                   last_status, last_response, refresh_req, pre_refresh_sel, keep_expected,
                   fallback_expected, picked>>
    /\ UNCHANGED <<server_address, sent_to, origin, connected, resolved_from>>

\* (mutant) a reset that also empties the cache info panel
control_result_clears(e) ==
    /\ cache_info' = IF e = "reset_cache" THEN NoInfo ELSE cache_info
    /\ UNCHANGED <<cache_usage, system_info, trace_active>>

\* cache_info.rs:41-48, 60-67, home.rs:286-293: what either arm of a control
\* action writes besides the toast: nothing
control_result(e) ==
    UNCHANGED <<cache_usage, cache_info, system_info, trace_active>>

\* cache_info.rs:41-44, 60-63, home.rs:286-289: the Ok arm of reset_cache,
\* shutdown_server, get_cache_stats
ResolveControlOk(e) ==
    /\ e \in ControlEndpoints
    /\ \E a \in Addresses : settle(e, a)
    /\ ~aborted
    /\ toast_calls' = <<"response.message">>
    /\ control_result(e)
    /\ \E status \in OkStatuses : last_status' = status
    /\ op' = "resolve_control_ok"
    /\ UNCHANGED <<dvars, cvars, tvars, execution_plans, selected_plan_id, effect_pending, in_flight,
                   next_req, crashed, clicks, last_response, refresh_req, pre_refresh_sel,
                   keep_expected, fallback_expected, picked>>
    /\ UNCHANGED <<server_address, sent_to, origin, connected>>

\* cache_info.rs:45-47, 64-66, home.rs:290-292: their Err arm
ResolveControlErr(e) ==
    /\ e \in ControlEndpoints
    /\ \E a \in Addresses : settle(e, a)
    /\ toast_calls' = <<ErrorText(e)>>
    /\ control_result(e)
    /\ \E status \in ErrStatuses : (aborted => status = "failed") /\ last_status' = status
    /\ op' = "resolve_control_err"
    /\ UNCHANGED <<dvars, cvars, tvars, execution_plans, selected_plan_id, effect_pending, in_flight,
                   next_req, crashed, clicks, last_response, refresh_req, pre_refresh_sel,
                   keep_expected, fallback_expected, picked>>
    /\ UNCHANGED <<server_address, sent_to, origin, connected>>

\* the runs in which the user edits the address and presses the buttons that
\* dispatch one request
NextDispatch ==
    \/ \E a \in Addresses : AddressInput(a)
    \/ RefreshClick
    \/ StartTraceClick
    \/ StopTraceClick
    \/ \E e \in ControlEndpoints : ControlClick(e)
    \/ \E e \in TraceEndpoints : ResolveTraceOk(e)

SpecDispatch == Init /\ [][NextDispatch]_vars

\* the runs in which the panels are loaded and the control buttons pressed
NextControl ==
    \/ CacheInfoRefreshClick
    \/ StartTraceClick
    \/ \E e \in ControlEndpoints : ControlClick(e)
    \/ \E e \in InfoEndpoints, payload \in InfoPayloads : ResolveInfoOk(e, payload)
    \/ \E e \in TraceEndpoints : ResolveTraceOk(e)
    \/ \E e \in ControlEndpoints : ResolveControlOk(e)
    \/ \E e \in ControlEndpoints : ResolveControlErr(e)

SpecControl == Init /\ [][NextControl]_vars

\* the runs in which the user moves between two servers
NextConnect ==
    \/ \E a \in Addresses : AddressInput(a)
    \/ ConnectClick
    \/ \E r \in in_flight, response \in DashBatches : ResolveOk(r, "2xx", response)
    \/ AutoSelectEffect
    \/ \E e \in {"cache_info", "system_info"}, payload \in InfoPayloads : ResolveInfoOk(e, payload)

SpecConnect == Init /\ [][NextConnect]_vars

(***************************************************************************)
(* Decoder runs: the decoders applied to every batch and node document     *)
(***************************************************************************)
DecodeBatch(response) ==
    /\ op = "init"
    /\ batch' = response
    /\ parsed' = parse_execution_plans(response)
    /\ fetched' = decode_response(response)
    /\ op' = "decode_batch"
    /\ UNCHANGED <<doc, node, pvars, cvars, fvars, tvars, last_status, last_response, refresh_req, pre_refresh_sel,
                   keep_expected, fallback_expected, picked>>
    /\ UNCHANGED avars

DecodeDoc(d) ==
    /\ op = "init"
    /\ doc' = d
    /\ node' = from_str_ExecutionPlanNode(d)
    /\ op' = "decode_doc"
    /\ UNCHANGED <<batch, parsed, fetched, pvars, cvars, fvars, tvars, last_status, last_response, refresh_req,
                   pre_refresh_sel, keep_expected, fallback_expected, picked>>
    /\ UNCHANGED avars

\* each run decodes one input
Undecoded(inputs) == IF op = "init" THEN inputs ELSE {}

NextDecode ==
    \/ \E response \in Undecoded(Batches) : DecodeBatch(response)
    \/ \E d \in Undecoded(TopDocs) : DecodeDoc(d)

SpecDecode == Init /\ [][NextDecode]_vars

(***************************************************************************)
(* The metrics of a node: components/execution_plans.rs:9-45, 116-132 and  *)
(* utils.rs:5-15.                                                          *)
(*                                                                         *)
(* A string shown to the user, or held by a metric, is a text              *)
(* [kind, n, frac, suffix]: a prefix followed by a suffix.  The prefix is  *)
(*   "int"   the decimal digits of n            "neg"   '-' and the digits *)
(*   "dec2"  the digits of n, '.', the two digits of frac                  *)
(*   "inf"   the word inf     "nan"   the word NaN                         *)
(*   "word"  a text that is no number           "empty" nothing            *)
(* The suffix "us" stands for the microsecond suffix of format_duration.    *)
(* A metric name is the sequence of its characters.                        *)
(***************************************************************************)
Text(kind, n, frac, suffix) == [kind |-> kind, n |-> n, frac |-> frac, suffix |-> suffix]

\* str::parse::<f64> of the prefix: [ok, class, neg, ip, frac], the value being
\* ip + frac / 100 (negated when neg) for the class "finite"
parse_f64(t) ==
    CASE t.kind = "int" -> [ok |-> TRUE, class |-> "finite", neg |-> FALSE, ip |-> t.n, frac |-> 0]
      [] t.kind = "neg" -> [ok |-> TRUE, class |-> "finite", neg |-> TRUE, ip |-> t.n, frac |-> 0]
      [] t.kind = "dec2" ->
            [ok |-> TRUE, class |-> "finite", neg |-> FALSE, ip |-> t.n, frac |-> t.frac]
      [] t.kind = "inf" -> [ok |-> TRUE, class |-> "inf", neg |-> FALSE, ip |-> 0, frac |-> 0]
      [] t.kind = "nan" -> [ok |-> TRUE, class |-> "nan", neg |-> FALSE, ip |-> 0, frac |-> 0]
      [] OTHER -> [ok |-> FALSE, class |-> "", neg |-> FALSE, ip |-> 0, frac |-> 0]

\* str::parse::<u64> of the whole string
parse_u64(t) ==
    IF t.kind = "int" /\ t.suffix = "" THEN [ok |-> TRUE, v |-> t.n] ELSE [ok |-> FALSE, v |-> 0]

\* x * m divided by d, as [q, r], by m additions (no product leaves the integers
\* of the model checker); x < d
RECURSIVE MulDivRem(_, _, _, _, _)
MulDivRem(x, m, d, q, r) ==
    IF m = 0 THEN [q |-> q, r |-> r]
    ELSE IF r + x >= d THEN MulDivRem(x, m - 1, d, q + 1, r + x - d)
         ELSE MulDivRem(x, m - 1, d, q, r + x)

\* format!("{:.2}<suffix>", num as f64 / den as f64): the quotient by long
\* division, rounded to two decimals, a tie going to the even neighbour
fixed2(num, den, suffix) ==
    LET d1 == MulDivRem(num % den, 10, den, 0, 0)
        d2 == MulDivRem(d1.r, 10, den, 0, 0)
        q == 10 * d1.q + d2.q
        up == 2 * d2.r > den \/ (2 * d2.r = den /\ q % 2 = 1)
        h == q + (IF up THEN 1 ELSE 0)
    IN Text("dec2", (num \div den) + (h \div 100), h % 100, suffix)

\* f64 >= an integer threshold
ge(p, threshold) ==
    CASE p.class = "inf" -> TRUE
      [] p.class = "nan" -> FALSE
      [] OTHER -> ~p.neg /\ p.ip >= threshold

\* format!("{:.2}<suffix>", ns / unit)
scaled(p, unit, suffix) ==
    IF p.class = "inf" THEN Text("inf", 0, 0, suffix)
    ELSE IF p.frac = 0 THEN fixed2(p.ip, unit, suffix)
    ELSE fixed2(p.ip * 100 + p.frac, unit * 100, suffix)

\* ns as u64: a saturating cast, NaN and the negative values give 0
as_u64(p) == IF p.class = "nan" \/ p.neg THEN 0 ELSE p.ip

\* (mutant) thresholds that are strict
format_duration_strict(duration_str) ==
    IF duration_str.suffix = "ms" THEN duration_str
    ELSE IF duration_str.suffix = "ns"
    THEN LET ns == parse_f64(duration_str)
         IN IF ~ns.ok THEN duration_str
            ELSE IF ge(ns, 1000000001) THEN scaled(ns, 1000000000, "s")
            ELSE IF ge(ns, 1000001) THEN scaled(ns, 1000000, "ms")
            ELSE IF ge(ns, 1001) THEN scaled(ns, 1000, "us")
            ELSE Text("int", as_u64(ns), 0, "ns")
    ELSE duration_str

\* execution_plans.rs:9-29 (utils.rs:26-46 is the same function)
format_duration(duration_str) ==
    IF duration_str.suffix = "ms" THEN duration_str
    ELSE IF duration_str.suffix = "ns"
    THEN LET ns == parse_f64(duration_str)
         IN IF ~ns.ok THEN duration_str
            ELSE IF ge(ns, 1000000000) THEN scaled(ns, 1000000000, "s")
            ELSE IF ge(ns, 1000000) THEN scaled(ns, 1000000, "ms")
            ELSE IF ge(ns, 1000) THEN scaled(ns, 1000, "us")
            ELSE Text("int", as_u64(ns), 0, "ns")
    ELSE duration_str

\* (mutant) binary thresholds
format_number_binary(num_str) ==
    LET num == parse_u64(num_str)
    IN IF ~num.ok THEN num_str
       ELSE IF num.v >= 1073741824 THEN fixed2(num.v, 1073741824, "B")
       ELSE IF num.v >= 1048576 THEN fixed2(num.v, 1048576, "M")
       ELSE IF num.v >= 1024 THEN fixed2(num.v, 1024, "K")
       ELSE Text("int", num.v, 0, "")

\* execution_plans.rs:31-45 (utils.rs:48-62 is the same function)
format_number(num_str) ==
    LET num == parse_u64(num_str)
    IN IF ~num.ok THEN num_str
       ELSE IF num.v >= 1000000000 THEN fixed2(num.v, 1000000000, "B")
       ELSE IF num.v >= 1000000 THEN fixed2(num.v, 1000000, "M")
       ELSE IF num.v >= 1000 THEN fixed2(num.v, 1000, "K")
       ELSE Text("int", num.v, 0, "")

\* (mutant) decimal units
format_bytes_decimal(bytes) ==
    IF bytes < 1000 THEN Text("int", bytes, 0, " B")
    ELSE IF bytes < 1000000 THEN fixed2(bytes, 1000, " KB")
    ELSE IF bytes < 1000000000 THEN fixed2(bytes, 1000000, " MB")
    ELSE fixed2(bytes, 1000000000, " GB")

\* utils.rs:5-15
format_bytes(bytes) ==
    IF bytes < 1024 THEN Text("int", bytes, 0, " B")
    ELSE IF bytes < 1024 * 1024 THEN fixed2(bytes, 1024, " KB")
    ELSE IF bytes < 1024 * 1024 * 1024 THEN fixed2(bytes, 1024 * 1024, " MB")
    ELSE fixed2(bytes, 1024 * 1024 * 1024, " GB")

\* str::contains
contains(key, pattern) ==
    \E i \in 1..(Len(key) - Len(pattern) + 1) : SubSeq(key, i, i + Len(pattern) - 1) = pattern

time == <<"t", "i", "m", "e">>
elapsed == <<"e", "l", "a", "p", "s", "e", "d">>
bytes == <<"b", "y", "t", "e", "s">>
rows == <<"r", "o", "w", "s">>

\* unwrap_or(0) of value.parse::<u64>()
unwrap_or_0(parsed_value) == IF parsed_value.ok THEN parsed_value.v ELSE 0

\* (mutant) the bytes rule tried first
formatted_value_bytes_first(key, value) ==
    IF contains(key, bytes) THEN format_bytes(unwrap_or_0(parse_u64(value)))
    ELSE IF contains(key, time) \/ contains(key, elapsed) THEN format_duration(value)
    ELSE IF contains(key, rows) THEN format_number(value)
    ELSE value

\* execution_plans.rs:120-128
formatted_value(key, value) ==
    IF contains(key, time) \/ contains(key, elapsed) THEN format_duration(value)
    ELSE IF contains(key, bytes) THEN format_bytes(unwrap_or_0(parse_u64(value)))
    ELSE IF contains(key, rows) THEN format_number(value)
    ELSE value

\* String::cmp: the order of the characters is that of their codes
Alphabet == <<"_", "a", "b", "d", "e", "i", "l", "m", "o", "p", "r", "s", "t", "w", "y">>
Ord(c) == CHOOSE i \in DOMAIN Alphabet : Alphabet[i] = c
RECURSIVE cmp_less(_, _)
cmp_less(a, b) ==
    IF b = <<>> THEN FALSE
    ELSE IF a = <<>> THEN TRUE
    ELSE IF Head(a) # Head(b) THEN Ord(Head(a)) < Ord(Head(b))
    ELSE cmp_less(Tail(a), Tail(b))

\* (mutant) no sort: the pairs stay in iteration order
keep_order(sorted, x) == Append(sorted, x)

\* all_metrics.sort_by(|a, b| a.0.cmp(&b.0)): stable, ascending by label
insert_by_label(sorted, x) ==
    LET k == Cardinality({i \in DOMAIN sorted : ~cmp_less(x.label, sorted[i].label)})
    IN SubSeq(sorted, 1, k) \o <<x>> \o SubSeq(sorted, k + 1, Len(sorted))

RECURSIVE sort_by_label(_, _)
sort_by_label(rest, sorted) ==
    IF rest = <<>> THEN sorted
    ELSE sort_by_label(Tail(rest), insert_by_label(sorted, Head(rest)))

\* execution_plans.rs:116-132: the pairs collected in iteration order, then sorted
collect_all_metrics(node_metrics, order) ==
    sort_by_label([i \in DOMAIN order |->
                     [label |-> order[i],
                      value |-> formatted_value(order[i], node_metrics[order[i]])]],
                  <<>>)

\* metric names
spill == <<"s", "p", "i", "l", "l">>
bytes_time == <<"b", "y", "t", "e", "s", "_", "t", "i", "m", "e">>
rows_bytes == <<"r", "o", "w", "s", "_", "b", "y", "t", "e", "s">>
MetricNames == {time, elapsed, bytes, rows, spill, bytes_time, rows_bytes}
\* metric values: the numbers around the thresholds of the three formatters
Numbers ==
    {0, 5, 999, 1000, 1023, 1024, 1026, 1500, 999999, 1000000, 1048574, 1048576,
     1500000, 999999999, 1000000000, 1073741823, 1073741824, 1500000000, 2147483647}
Suffixes == {"", "ns", "ms"}
Prefixes ==
    {[kind |-> "int", n |-> n, frac |-> 0] : n \in Numbers}
    \cup {[kind |-> "neg", n |-> 5, frac |-> 0], [kind |-> "dec2", n |-> 1, frac |-> 50],
          [kind |-> "inf", n |-> 0, frac |-> 0], [kind |-> "nan", n |-> 0, frac |-> 0],
          [kind |-> "word", n |-> 0, frac |-> 0], [kind |-> "empty", n |-> 0, frac |-> 0]}
MetricValues == {Text(p.kind, p.n, p.frac, x) : p \in Prefixes, x \in Suffixes}
FewValues == {Text("int", 1500, 0, ""), Text("word", 0, 0, "")}
\* the maps of one metric, over every name and value, and the maps of several
\* metrics over a few values
MetricMaps ==
    UNION {[{k} -> MetricValues] : k \in MetricNames}
    \cup UNION {[ks -> FewValues] :
                 ks \in {x \in SUBSET MetricNames : Cardinality(x) \in 2..MaxMetrics}}
\* the orders in which a HashMap may yield its keys
Orders(node_metrics) ==
    {o \in [1..Cardinality(DOMAIN node_metrics) -> DOMAIN node_metrics] :
        \A i, j \in DOMAIN o : i # j => o[i] # o[j]}

\* execution_plans.rs:110-132: ExecutionPlanNodeComponent computes the metrics
\* to display for a node
RenderNode(node_metrics, order) ==
    /\ op = "init"
    /\ metrics' = node_metrics
    /\ iteration' = order
    /\ all_metrics' = collect_all_metrics(node_metrics, order)
    /\ op' = "render_node"
    /\ UNCHANGED <<dvars, pvars, fvars, tvars, rvars, evars, ovars, last_status, last_response, refresh_req,
                   pre_refresh_sel, keep_expected, fallback_expected, picked>>
    /\ UNCHANGED avars

NextFormat ==
    \E node_metrics \in Undecoded(MetricMaps) :
        \E order \in Orders(node_metrics) : RenderNode(node_metrics, order)

SpecFormat == Init /\ [][NextFormat]_vars

(***************************************************************************)
(* The plan tree: components/execution_plans.rs:109-113, 365-400.  A view  *)
(* is [name, line_down, children]: the card of the node, whether the       *)
(* vertical connector under it is drawn, and for each child, in order, the *)
(* horizontal connector and the view of the child.                         *)
(***************************************************************************)
\* execution_plans.rs:113
has_children(n) == n.children # <<>>

RECURSIVE ExecutionPlanNodeComponent(_)

\* (mutant) the last child is not rendered
child_views_but_last(children) ==
    [i \in 1..(Len(children) - 1) |->
        [connector |-> TRUE, view |-> ExecutionPlanNodeComponent(children[i])]]

\* execution_plans.rs:374-393: node.children.into_iter().map(..).collect_view()
child_views(children) ==
    [i \in DOMAIN children |->
        [connector |-> TRUE, view |-> ExecutionPlanNodeComponent(children[i])]]

\* execution_plans.rs:110-403 (the card, then the connectors and the children)
ExecutionPlanNodeComponent(n) ==
    IF has_children(n)
    THEN [name |-> n.name, line_down |-> TRUE, children |-> child_views(n.children)]
    ELSE [name |-> n.name, line_down |-> FALSE, children |-> <<>>]

\* the ordered trees of k nodes and the ordered forests of m nodes
RECURSIVE Forests(_)
Forests(m) ==
    IF m = 0 THEN {<<>>}
    ELSE UNION {{<<[name |-> <<>>, children |-> c]>> \o f : c \in Forests(k - 1),
                                                          f \in Forests(m - k)} :
                 k \in 1..m}
\* a node is named by its path from the root, so no two nodes share a name
RECURSIVE Named(_, _)
Named(n, path) ==
    [name |-> path,
     children |-> [i \in DOMAIN n.children |-> Named(n.children[i], Append(path, i))]]
PlanTrees == {Named(f[1], <<>>) : f \in UNION {Forests(k) : k \in 1..MaxNodes} \ {<<>>}}

\* execution_plans.rs:534-536: the plan view renders the root of the selected plan
RenderPlan(plan) ==
    /\ op = "init"
    /\ rendered_plan' = plan
    /\ node_view' = ExecutionPlanNodeComponent(plan)
    /\ op' = "render_plan"
    /\ UNCHANGED <<dvars, pvars, fvars, tvars, mvars, evars, ovars, last_status, last_response, refresh_req,
                   pre_refresh_sel, keep_expected, fallback_expected, picked>>
    /\ UNCHANGED avars

NextRender == \E plan \in Undecoded(PlanTrees) : RenderPlan(plan)

SpecRender == Init /\ [][NextRender]_vars

(***************************************************************************)
(* The display name of a plan (models/execution_plan.rs:77-97).  A String  *)
(* is the sequence of its characters; "a" is encoded in one byte of UTF-8  *)
(* and "e'" (an e with an acute accent) in two.                            *)
(***************************************************************************)
IdChars == {"a", "e'"}

len_utf8(c) == IF c = "a" THEN 1 ELSE 2

\* str::len: the number of bytes
RECURSIVE len(_)
len(str) == IF str = <<>> THEN 0 ELSE len_utf8(Head(str)) + len(Tail(str))

\* str::is_char_boundary(n)
is_char_boundary(str, n) == \E k \in 0..Len(str) : len(SubSeq(str, 1, k)) = n

\* &str[0..n]: the characters of the first n bytes; a panic when byte n is
\* inside a character
slice_to(str, n) ==
    IF is_char_boundary(str, n)
    THEN [panic |-> FALSE,
          text |-> SubSeq(str, 1, CHOOSE k \in 0..Len(str) : len(SubSeq(str, 1, k)) = n)]
    ELSE [panic |-> TRUE, text |-> <<>>]

\* format!("{} ({})", label, formatted_time)
with_time(label, formatted_time) == label \o <<" ", "(", formatted_time, ")">>

\* execution_plan.rs:90-97
fallback_display_name(plan) ==
    IF len(plan.id) > 8
    THEN LET short == slice_to(plan.id, 8)
         IN  IF short.panic THEN short
             ELSE [panic |-> FALSE,
                   text |-> with_time(short.text \o <<".", ".", ".">>, plan.formatted_time)]
    ELSE [panic |-> FALSE, text |-> with_time(plan.id, plan.formatted_time)]

\* execution_plan.rs:78-88
display_name(plan) ==
    IF plan.stats.some
    THEN IF plan.stats.v.display_name # <<>>
         THEN [panic |-> FALSE,
               text |-> with_time(plan.stats.v.display_name, plan.formatted_time)]
         ELSE fallback_display_name(plan)
    ELSE fallback_display_name(plan)

\* the ids of up to MaxIdLen characters
PlanIds == UNION {[1..n -> IdChars] : n \in 0..MaxIdLen}

\* no stats, stats with an empty display name, stats with a display name
StatsInputs == {None, Some([display_name |-> <<>>]), Some([display_name |-> <<"q", "1">>])}

NamedPlans ==
    [id : PlanIds, stats : StatsInputs, formatted_time : {"12:00:00"}]

DisplayName(plan) ==
    /\ op = "init"
    /\ named_plan' = plan
    /\ shown_name' = display_name(plan)
    /\ op' = "display_name"
    /\ UNCHANGED <<dvars, pvars, fvars, tvars, avars, mvars, rvars, evars, wvars, last_status,
                   last_response, refresh_req, pre_refresh_sel, keep_expected,
                   fallback_expected, picked>>

NextName == \E plan \in Undecoded(NamedPlans) : DisplayName(plan)

SpecName == Init /\ [][NextName]_vars

(***************************************************************************)
(* The toasts (components/toast.rs).  A handler (the continuation of a     *)
(* fetch, a click, a timeout) runs to its end before the Effects scheduled *)
(* by its writes run, and those run before the next handler starts.        *)
(***************************************************************************)
\* toast.rs:31-41
Toast_error(id, message) ==
    [id |-> id, message |-> message, toast_type |-> "Error", duration |-> Some(6000)]
Toast_success(id, message) ==
    [id |-> id, message |-> message, toast_type |-> "Success", duration |-> Some(4000)]

\* the toast a show_* call builds: show_success is called with the message of
\* the response, show_error with an error text
new_toast(id, message) ==
    IF message = "response.message" THEN Toast_success(id, message)
    ELSE Toast_error(id, message)

\* the show_* calls one handler makes: the errors of the decode loop of
\* fetch_execution_plans (one per malformed record, home.rs:151-183), the one
\* call of its Err arm, the one call of the Ok arm of a trace or control action
ToastCallLists ==
    ({decode_response(b).errors : b \in UiBatches} \ {<<>>})
        \cup {<<"Failed to fetch execution plans">>, <<"response.message">>}

HandlerRunning == add_effect_pending \/ remove_effect_pending

\* toast.rs:52-66: a handler calls show_success / show_error once per entry
\* of calls, each call add_toast.set(Some(Toast::new(..))); the signal holds
\* the value of the last set
ShowToasts(calls) ==
    /\ ~HandlerRunning
    /\ calls # <<>>
    /\ next_toast + Len(calls) <= MaxToasts
    /\ next_toast' = next_toast + Len(calls)
    /\ add_toast' = Some(new_toast(next_toast', calls[Len(calls)]))
    /\ add_effect_pending' = TRUE
    /\ toast_calls' = calls
    /\ op' = "show_toasts"
    /\ UNCHANGED <<toasts, remove_toast, remove_effect_pending, timers, inserted>>
    /\ UNCHANGED <<dvars, fvars, tvars, avars, mvars, rvars, evars, nvars, execution_plans,
                   selected_plan_id, effect_pending, in_flight, next_req, crashed,
                   last_status, last_response, refresh_req, pre_refresh_sel, keep_expected,
                   fallback_expected, picked>>

\* what no step of the toasts writes
ToastFrame ==
    UNCHANGED <<dvars, pvars, fvars, tvars, avars, mvars, rvars, evars, nvars, last_status,
                last_response, refresh_req, pre_refresh_sel, keep_expected,
                fallback_expected, picked>>

\* toast.rs:88-107: the add Effect; its own write of add_toast schedules it
\* again
AddEffect ==
    /\ add_effect_pending
    /\ IF add_toast.some
       THEN /\ toasts' = [id \in DOMAIN toasts \cup {add_toast.v.id} |->
                            IF id = add_toast.v.id THEN add_toast.v ELSE toasts[id]]
            /\ inserted' = inserted \cup {add_toast.v.id}
            /\ timers' = IF add_toast.v.duration.some
                          THEN timers \cup {add_toast.v.id} ELSE timers
            /\ add_toast' = None
            /\ add_effect_pending' = TRUE
       ELSE /\ add_effect_pending' = FALSE
            /\ UNCHANGED <<toasts, inserted, timers, add_toast>>
    /\ op' = "add_effect"
    /\ UNCHANGED <<remove_toast, remove_effect_pending, next_toast>>
    /\ ToastFrame

\* (mutant) a remove Effect that empties the map
remove_from_map_all(map, toast_id) == <<>>

\* toast.rs:112-114: toasts.remove(&toast_id)
remove_from_map(map, toast_id) == [id \in DOMAIN map \ {toast_id} |-> map[id]]

\* toast.rs:110-117: the remove Effect
RemoveEffect ==
    /\ remove_effect_pending
    /\ IF remove_toast.some
       THEN /\ toasts' = remove_from_map(toasts, remove_toast.v)
            /\ remove_toast' = None
            /\ remove_effect_pending' = TRUE
       ELSE /\ remove_effect_pending' = FALSE
            /\ UNCHANGED <<toasts, remove_toast>>
    /\ op' = "remove_effect"
    /\ UNCHANGED <<add_toast, add_effect_pending, timers, next_toast, inserted>>
    /\ ToastFrame

\* toast.rs:68-70
remove(id) ==
    /\ remove_toast' = Some(id)
    /\ remove_effect_pending' = TRUE

\* toast.rs:99-102: the timeout of toast id ends
TimerFires(id) ==
    /\ ~HandlerRunning
    /\ id \in timers
    /\ timers' = timers \ {id}
    /\ remove(id)
    /\ op' = "timer_fires"
    /\ UNCHANGED <<toasts, add_toast, add_effect_pending, next_toast, inserted>>
    /\ ToastFrame

\* toast.rs:142-144, 192-197: the close button of a displayed toast
CloseClick(id) ==
    /\ ~HandlerRunning
    /\ id \in DOMAIN toasts
    /\ remove(id)
    /\ op' = "close_click"
    /\ UNCHANGED <<toasts, add_toast, add_effect_pending, timers, next_toast, inserted>>
    /\ ToastFrame

ToastIds == 1..MaxToasts

NextToast ==
    \/ \E calls \in ToastCallLists : ShowToasts(calls)
    \/ AddEffect
    \/ RemoveEffect
    \/ \E id \in ToastIds : TimerFires(id)
    \/ \E id \in ToastIds : CloseClick(id)

SpecToast == Init /\ [][NextToast]_vars

\* the Effects run when scheduled and every timeout ends
SpecToastFair ==
    /\ SpecToast
    /\ WF_vars(AddEffect)
    /\ WF_vars(RemoveEffect)
    /\ \A id \in ToastIds : WF_vars(TimerFires(id))

(***************************************************************************)
(* The page with the schema toggles of the plan on display                 *)
(***************************************************************************)
\* a plan of two nodes: a parent and its child, given as a JSON string
ParentDoc == [wf |-> TRUE, name |-> "T", children |-> <<[enc |-> "string", doc |-> Leaf("A")]>>]
ParentRecord(k, t) ==
    [key |-> k, json_ok |-> TRUE, plan |-> ParentDoc, created_at |-> t, stats |-> "absent"]
\* payloads of /execution_plans: no plan, one plan, two plans
ToggleBatches == {<<>>, <<ParentRecord("a", 2)>>, <<ParentRecord("a", 2), ParentRecord("b", 1)>>}
TogglePaths == {<<>>, <<1>>}

NextToggle ==
    \/ RefreshClick
    \/ \E r \in in_flight, response \in ToggleBatches : ResolveOk(r, "2xx", response)
    \/ \E r \in in_flight : ResolveErr(r, "failed")
    \/ AutoSelectEffect
    \/ \E q \in TogglePaths : ToggleClick(q)

SpecToggle == Init /\ [][NextToggle]_vars

(***************************************************************************)
(* Properties of the decoders (specification SpecDecode)                   *)
(***************************************************************************)
Malformed(r) == ~r.json_ok \/ ~from_str_ExecutionPlanNode(r.plan).ok
Decodes(r) == ~Malformed(r) /\ timestamp_opt_single(r.created_at)
MalformedKeys(b) ==
    LET bad == SelectSeq(b, Malformed) IN [i \in DOMAIN bad |-> bad[i].key]

\* C1: decoding a batch is partial-failure tolerant: every record that decodes
\* is in the resulting plan list whatever the other records are, and every
\* malformed record is skipped and yields exactly one recorded decode error.
PartialFailureTolerant ==
    /\ \A i \in DOMAIN batch :
         Decodes(batch[i]) =>
            batch[i].key \in Ids(parsed.plans) /\ batch[i].key \in Ids(fetched.plans)
    /\ \A i \in DOMAIN batch :
         Malformed(batch[i]) =>
            batch[i].key \notin Ids(parsed.plans) /\ batch[i].key \notin Ids(fetched.plans)
    /\ fetched.errors = MalformedKeys(batch)

IndexOf(b, k) == CHOOSE i \in DOMAIN b : b[i].key = k
Before(b, k1, k2) ==
    LET i == IndexOf(b, k1)
        j == IndexOf(b, k2)
    IN \/ b[i].created_at > b[j].created_at
       \/ b[i].created_at = b[j].created_at /\ i < j
NewestFirstStable(plans, b) ==
    \A i, j \in DOMAIN plans : i < j => Before(b, plans[i].id, plans[j].id)

\* C2: the decoded plan list is sorted by created_at descending, and plans with
\* equal created_at keep their relative order of the input batch.
SortedNewestFirstStable ==
    /\ NewestFirstStable(parsed.plans, batch)
    /\ NewestFirstStable(fetched.plans, batch)
    /\ \A i \in DOMAIN parsed.plans :
         parsed.plans[i].created_at = batch[IndexOf(batch, parsed.plans[i].id)].created_at

\* C2 witness: three plans decoded by both decoders from a batch that is not in
\* newest-first order and holds two records of equal created_at.
SortedWitness ==
    /\ op = "decode_batch"
    /\ parsed.ok /\ Len(parsed.plans) = 3 /\ Len(fetched.plans) = 3
    /\ \E i, j \in DOMAIN batch : i < j /\ batch[i].created_at < batch[j].created_at
    /\ \E i, j \in DOMAIN batch : i < j /\ batch[i].created_at = batch[j].created_at

Survivors(d) == SelectSeq(d.children, LAMBDA e : e.doc.wf)
RECURSIVE GoodEntriesAreStrings(_)
GoodEntriesAreStrings(d) ==
    \A i \in DOMAIN d.children :
        d.children[i].doc.wf =>
            d.children[i].enc = "string" /\ GoodEntriesAreStrings(d.children[i].doc)

\* C9: a child entry that fails to parse is dropped from the node's children;
\* the parent and its other children are decoded, the survivors in their
\* original order.  (Stated for documents whose well-formed children all use
\* the string encoding, so that only the failing entries are in question.)
FailedChildDropped ==
    (/\ doc.wf
     /\ GoodEntriesAreStrings(doc)
     /\ \E i \in DOMAIN doc.children : ~doc.children[i].doc.wf)
    => /\ node.ok
       /\ Len(node.node.children) = Len(Survivors(doc))
       /\ \A i \in DOMAIN node.node.children :
            node.node.children[i].name = Survivors(doc)[i].doc.name

RECURSIVE AllEntriesAreStrings(_)
AllEntriesAreStrings(d) ==
    \A i \in DOMAIN d.children :
        d.children[i].enc = "string" /\ AllEntriesAreStrings(d.children[i].doc)

\* What the code does give: the same when every entry of every children array
\* is a JSON string.
FailedStringChildDropped ==
    (doc.wf /\ AllEntriesAreStrings(doc))
    => /\ node.ok
       /\ Len(node.node.children) = Len(Survivors(doc))
       /\ \A i \in DOMAIN node.node.children :
            node.node.children[i].name = Survivors(doc)[i].doc.name

RECURSIVE AsStrings(_)
AsStrings(d) ==
    [wf |-> d.wf, name |-> d.name,
     children |-> [i \in DOMAIN d.children |->
                     [enc |-> "string", doc |-> AsStrings(d.children[i].doc)]]]
RECURSIVE AllWellFormed(_)
AllWellFormed(d) ==
    d.wf /\ \A i \in DOMAIN d.children : AllWellFormed(d.children[i].doc)

\* C10: both encodings of the children field are accepted: a child given as a
\* native JSON object decodes to the same node as the child given as a JSON
\* string, and a plan using either encoding decodes.
BothEncodingsAccepted ==
    /\ AllWellFormed(doc) => node = from_str_ExecutionPlanNode(AsStrings(doc))
    /\ AllWellFormed(doc) => node.ok

WithoutInvalidStats(b) ==
    [i \in DOMAIN b |->
        [b[i] EXCEPT !.stats = IF b[i].stats = "invalid" THEN "absent" ELSE b[i].stats]]
PlanOf(plans, k) == plans[CHOOSE i \in DOMAIN plans : plans[i].id = k]

\* C11: a record whose stats string is present but fails to parse is decoded
\* into a plan with stats = none: the record is not dropped and the batch does
\* not fail because of it (both decoders give what they give for the batch with
\* that stats field absent, and a batch of records that decode yields a plan
\* for every record).
BadStatsYieldNone ==
    /\ parsed = parse_execution_plans(WithoutInvalidStats(batch))
    /\ fetched = decode_response(WithoutInvalidStats(batch))
    /\ (\A i \in DOMAIN batch : Decodes(batch[i]))
         => /\ parsed.ok
            /\ Len(parsed.plans) = Len(batch)
            /\ \A i \in DOMAIN batch :
                 /\ batch[i].key \in Ids(parsed.plans)
                 /\ batch[i].key \in Ids(fetched.plans)
                 /\ batch[i].stats = "invalid"
                      => PlanOf(parsed.plans, batch[i].key).stats = "none"
                 /\ batch[i].stats = "valid"
                      => PlanOf(parsed.plans, batch[i].key).stats = "some"

\* C11 witness: a decoded batch of three records, one with a stats string that
\* fails to parse, one with stats that parse, one without stats.
BadStatsWitness ==
    /\ op = "decode_batch" /\ parsed.ok /\ Len(parsed.plans) = 3
    /\ \A st \in StatsTexts : \E i \in DOMAIN batch : batch[i].stats = st

(***************************************************************************)
(* Properties of the page (specification Spec)                             *)
(***************************************************************************)
\* C3: when a response replaces the plan list by a non-empty list that does not
\* hold the selected id (or nothing is selected), the selection is the id of
\* the first plan of that list once the auto-select Effect has run.
FallbackSelectsNewest ==
    (fallback_expected /\ ~effect_pending)
    => /\ execution_plans.some
       /\ execution_plans.v # <<>>
       /\ selected_plan_id = execution_plans.v[1].id

\* C3 witness: the new list of two plans did not hold the selection and the
\* Effect has run.
FallbackWitness ==
    /\ fallback_expected /\ ~effect_pending /\ op = "effect"
    /\ Len(execution_plans.v) = 2

\* C4: a refresh preserves the selection: a plan selected before the Refresh
\* click whose id is in the list that refresh returns is selected after it.
RefreshKeepsSelection ==
    (keep_expected # "" /\ ~effect_pending) => selected_plan_id = keep_expected

\* C5 as claimed: after the user picks an entry of the selector, the selected
\* id is the picked value until the next refresh, whatever the Effect does.
ManualPickSticks == picked.some => selected_plan_id = picked.v

\* C5 as amended: the same for the entries that are plans (and for the
\* placeholder entry "" while the list is absent or empty).
ManualPlanPickSticks ==
    (/\ picked.some
     /\ (picked.v # "" \/ ~execution_plans.some \/ execution_plans.v = <<>>))
    => selected_plan_id = picked.v

\* C5 witness: the user picked a plan that is not the first of the list and the
\* Effect has run since.
ManualPickWitness ==
    /\ picked.some /\ picked.v # "" /\ op = "effect" /\ ~effect_pending
    /\ Len(execution_plans.v) = 2
    /\ picked.v = execution_plans.v[2].id

\* C6: whatever the interleaving of the requests in flight, the displayed list
\* is the decoded payload of the most recently resolved successful response.
LastWriterWins ==
    last_response.some
    => execution_plans = Some(decode_response(last_response.v).plans)

\* What the code does give: the same as long as no handler has panicked.
LastWriterWinsUnlessPanic ==
    (last_response.some /\ ~crashed)
    => execution_plans = Some(decode_response(last_response.v).plans)

NoneDecodable(b) == b # <<>> /\ \A i \in DOMAIN b : ~Decodes(b[i])

\* C7: a fetched batch none of whose records can be decoded is a hard decode
\* failure: a notification is emitted and the displayed list is retained.
HardFailureKeepsList ==
    [][(op' = "resolve_ok" /\ NoneDecodable(last_response'.v))
       => (execution_plans' = execution_plans /\ toast_calls' # <<>>)]_vars

\* C8: no error is fatal: no response, a record whose created_at is no
\* representable timestamp included, makes the handler panic, and a bad record
\* never keeps the decodable records of its batch out of the list.
NoErrorFatal ==
    /\ ~crashed
    /\ op = "resolve_ok" =>
         \A i \in DOMAIN last_response.v :
            Decodes(last_response.v[i]) =>
                last_response.v[i].key \in Ids(execution_plans.v)

DecodableKeys(b) == {b[i].key : i \in {j \in DOMAIN b : Decodes(b[j])}}

\* C12: a successful refresh replaces the plan list wholesale: after a response
\* has been handled the displayed list holds exactly the plans decoded from
\* that batch, and no plan of the previous list absent from it remains.
RefreshReplacesWholesale ==
    [][op' = "resolve_ok"
       => /\ execution_plans'.some
          /\ Ids(execution_plans'.v) = DecodableKeys(last_response'.v)
          /\ Len(execution_plans'.v) = Cardinality(DecodableKeys(last_response'.v))]_vars

\* What the code does give: the same for a response whose handler does not panic.
RefreshReplacesWholesaleUnlessPanic ==
    [][(op' = "resolve_ok" /\ ~decode_response(last_response'.v).panic)
       => /\ execution_plans'.some
          /\ Ids(execution_plans'.v) = DecodableKeys(last_response'.v)
          /\ Len(execution_plans'.v) = Cardinality(DecodableKeys(last_response'.v))]_vars

(***************************************************************************)
(* Properties of the dashboard (specification SpecDashboard)               *)
(***************************************************************************)
display == <<execution_plans, cache_info, cache_usage, system_info, trace_active>>

\* C13: after the view is torn down every fetch in flight is aborted, and the
\* completion of a fetch updates no display state (plan list, cache info,
\* cache usage, system info, trace_active).
TeardownStopsUpdates ==
    [][(torn_down' => aborted') /\ (torn_down => display' = display)]_vars

\* C13 witness: a fetch dispatched before the teardown has completed after it,
\* with another one still in flight and fetched data on display.
TeardownWitness ==
    /\ torn_down /\ op = "resolve_err"
    /\ cache_info.some
    /\ pending["system_info"] > 0

FetchResolved == {"resolve_ok", "resolve_err", "resolve_info_ok", "resolve_info_err"}
NoDispatch ==
    /\ next_req' = next_req
    /\ in_flight' \subseteq in_flight
    /\ \A e \in Endpoints : pending'[e] <= pending[e]

\* C14: when a fetch of /execution_plans, /cache_info, /parquet_cache_usage or
\* /system_info fails at the network level (no response, or a response of a
\* status that is not 2xx), the displayed state is left unchanged, exactly one
\* error notification is emitted, and no request is issued.
NetworkFailureLeavesState ==
    [][(op' \in FetchResolved /\ last_status' = "failed")
       => (display' = display /\ Len(toast_calls') = 1 /\ NoDispatch)]_vars

\* What the code does give: the same whenever fetch_api returns Err.
FetchErrLeavesState ==
    [][(op' \in {"resolve_err", "resolve_info_err"})
       => (display' = display /\ Len(toast_calls') = 1 /\ NoDispatch)]_vars

(***************************************************************************)
(* Properties of the metrics of a node (specification SpecFormat)          *)
(***************************************************************************)
ShownValue(k) == all_metrics[CHOOSE i \in DOMAIN all_metrics : all_metrics[i].label = k].value
UnsignedInteger(v) == v.kind = "int" /\ v.suffix = ""
MalformedDuration(v) == v.suffix = "ns" /\ v.kind \in {"word", "empty", "neg", "inf", "nan"}
Rounded(s, num, den, suffix) ==
    /\ s.kind = "dec2" /\ s.suffix = suffix
    /\ s.frac \in 0..99
    /\ s.n \in {num \div den, (num \div den) + 1}

\* C15: the formatters pass malformed input through: a duration metric whose
\* value has no numeric prefix before "ns", or a negative or non-finite one,
\* and a row count or byte count that is no unsigned integer, is displayed as
\* the original string.
MalformedShownUnchanged ==
    \A k \in DOMAIN metrics :
        (\/ k \in {time, elapsed} /\ MalformedDuration(metrics[k])
         \/ k \in {bytes, rows} /\ ~UnsignedInteger(metrics[k]))
        => ShownValue(k) = metrics[k]

\* What the code does give: a duration whose prefix is no number at all and a
\* row count that is no unsigned integer are displayed unchanged.
NonNumericShownUnchanged ==
    \A k \in DOMAIN metrics :
        (\/ k \in {time, elapsed} /\ metrics[k].kind \in {"word", "empty"}
         \/ k = rows /\ ~UnsignedInteger(metrics[k]))
        => ShownValue(k) = metrics[k]

\* C16: format_bytes selects the unit by 1024 boundaries: B below 1024, printed
\* as the whole number; KB below 1024^2; MB below 1024^3; GB otherwise; the
\* units other than B with two decimals.
BytesUnitsBy1024 ==
    (bytes \in DOMAIN metrics /\ UnsignedInteger(metrics[bytes]))
    => LET b == metrics[bytes].n
           s == ShownValue(bytes)
       IN /\ b < 1024 => s = Text("int", b, 0, " B")
          /\ (1024 <= b /\ b < 1048576) => Rounded(s, b, 1024, " KB")
          /\ (1048576 <= b /\ b < 1073741824) => Rounded(s, b, 1048576, " MB")
          /\ 1073741824 <= b => Rounded(s, b, 1073741824, " GB")
          /\ b = 1023 => s = Text("int", 1023, 0, " B")
          /\ b = 1024 => s = Text("dec2", 1, 0, " KB")
          /\ b = 1048576 => s = Text("dec2", 1, 0, " MB")

\* C16 witness: a byte count of 1024^3 has been rendered, in GB.
BytesWitness ==
    /\ op = "render_node" /\ bytes \in DOMAIN metrics
    /\ metrics[bytes] = Text("int", 1073741824, 0, "")
    /\ ShownValue(bytes) = Text("dec2", 1, 0, " GB")

\* C17: format_duration returns a string ending in "ms" unchanged, and for
\* "<n>ns", n a non-negative integer, selects the unit by thresholds: s from
\* 10^9, ms from 10^6, microseconds from 10^3, below that ns printed as the
\* integer n.
DurationUnitsBy1000 ==
    \A k \in DOMAIN metrics \cap {time, elapsed} :
        LET v == metrics[k]
            s == ShownValue(k)
        IN /\ v.suffix = "ms" => s = v
           /\ (v.suffix = "ns" /\ v.kind = "int") =>
                /\ v.n >= 1000000000 => Rounded(s, v.n, 1000000000, "s")
                /\ (1000000 <= v.n /\ v.n < 1000000000) => Rounded(s, v.n, 1000000, "ms")
                /\ (1000 <= v.n /\ v.n < 1000000) => Rounded(s, v.n, 1000, "us")
                /\ v.n < 1000 => s = Text("int", v.n, 0, "ns")
                /\ v.n = 1500000000 => s = Text("dec2", 1, 50, "s")

\* C17 witness: "1500000000ns" has been rendered as "1.50s".
DurationWitness ==
    /\ op = "render_node" /\ time \in DOMAIN metrics
    /\ metrics[time] = Text("int", 1500000000, 0, "ns")
    /\ ShownValue(time) = Text("dec2", 1, 50, "s")

\* C18: format_number, for a string that parses as an unsigned integer n,
\* selects the suffix by thresholds: B from 10^9, M from 10^6, K from 10^3,
\* each with two decimals, and below that returns n as a plain integer.
NumberSuffixBy1000 ==
    (rows \in DOMAIN metrics /\ UnsignedInteger(metrics[rows]))
    => LET n == metrics[rows].n
           s == ShownValue(rows)
       IN /\ n >= 1000000000 => Rounded(s, n, 1000000000, "B")
          /\ (1000000 <= n /\ n < 1000000000) => Rounded(s, n, 1000000, "M")
          /\ (1000 <= n /\ n < 1000000) => Rounded(s, n, 1000, "K")
          /\ n < 1000 => s = Text("int", n, 0, "")

\* C18 witness: a row count of exactly 10^6 has been rendered as "1.00M".
NumberWitness ==
    /\ op = "render_node" /\ rows \in DOMAIN metrics
    /\ metrics[rows] = Text("int", 1000000, 0, "")
    /\ ShownValue(rows) = Text("dec2", 1, 0, "M")

\* C19: each metric is formatted according to its name, the rules tried in the
\* order duration ("time" or "elapsed"), bytes ("bytes"), number ("rows"), raw.
FormatterByName ==
    \A k \in DOMAIN metrics :
        LET v == metrics[k]
            s == ShownValue(k)
        IN /\ k \in {time, elapsed, bytes_time} => s = format_duration(v)
           /\ k \in {bytes, rows_bytes} => s = format_bytes(unwrap_or_0(parse_u64(v)))
           /\ k = rows => s = format_number(v)
           /\ k = spill => s = v

\* C19 witness: a metric whose name holds both "bytes" and "time" has been
\* rendered as a duration.
FormatterWitness ==
    /\ op = "render_node" /\ bytes_time \in DOMAIN metrics
    /\ metrics[bytes_time] = Text("int", 1500000000, 0, "ns")
    /\ ShownValue(bytes_time) = Text("dec2", 1, 50, "s")

\* C20: the metrics of a node are displayed sorted by name, each exactly once,
\* whatever the iteration order of the map.
MetricsSortedByName ==
    /\ \A i, j \in DOMAIN all_metrics :
         i < j => cmp_less(all_metrics[i].label, all_metrics[j].label)
    /\ {all_metrics[i].label : i \in DOMAIN all_metrics} = DOMAIN metrics
    /\ Len(all_metrics) = Cardinality(DOMAIN metrics)

\* C20 witness: three metrics rendered from an iteration order that is not the
\* order of their names.
SortedMetricsWitness ==
    /\ op = "render_node" /\ Len(all_metrics) = 3
    /\ cmp_less(iteration[2], iteration[1])
    /\ cmp_less(iteration[3], iteration[2])

(***************************************************************************)
(* Properties of the plan tree view (specification SpecRender)             *)
(***************************************************************************)
RECURSIVE Preorder(_)
RECURSIVE PreorderAll(_)
Preorder(n) == <<n.name>> \o PreorderAll(n.children)
PreorderAll(ns) == IF ns = <<>> THEN <<>> ELSE Preorder(Head(ns)) \o PreorderAll(Tail(ns))
RECURSIVE Cards(_)
RECURSIVE CardsAll(_)
Cards(v) == <<v.name>> \o CardsAll(v.children)
CardsAll(cs) == IF cs = <<>> THEN <<>> ELSE Cards(Head(cs).view) \o CardsAll(Tail(cs))
RECURSIVE Depth(_)
Depth(n) ==
    1 + (IF n.children = <<>> THEN 0
         ELSE CHOOSE d \in 1..MaxNodes + 1 :
                /\ \E i \in DOMAIN n.children : Depth(n.children[i]) = d
                /\ \A i \in DOMAIN n.children : Depth(n.children[i]) <= d)
RECURSIVE ViewOf(_, _)
ViewOf(v, n) ==
    /\ v.name = n.name
    /\ Len(v.children) = Len(n.children)
    /\ v.line_down = (n.children # <<>>)
    /\ \A i \in DOMAIN n.children :
         v.children[i].connector /\ ViewOf(v.children[i].view, n.children[i])

\* C21: rendering a plan tree visits every node exactly once: the cards of the
\* view are the nodes of the tree in preorder (each child rendered recursively,
\* in the order of the children list, at any depth), and a node without
\* children is a leaf of the view with no connector line.
EveryNodeRenderedOnce ==
    /\ Cards(node_view) = Preorder(rendered_plan)
    /\ ViewOf(node_view, rendered_plan)

\* C21 witness: a tree of depth 5 or more with a node of two children has been
\* rendered.
DeepTreeWitness ==
    /\ op = "render_plan"
    /\ Depth(rendered_plan) >= 5
    /\ Len(rendered_plan.children) = 2
    /\ Len(Cards(node_view)) = MaxNodes

(***************************************************************************)
(* Properties of the schema toggles (specification SpecToggle)             *)
(***************************************************************************)
\* C22: the toggle state of a node is local to the node: it changes only when
\* the node's own toggle is clicked, so a node on display is collapsed exactly
\* when its own toggle has been clicked an odd number of times, whatever other
\* toggles were clicked and whatever refreshes happened in between.
ToggleStateIsLocal ==
    \A q \in DOMAIN expanded : expanded[q] = (<<selected_plan_id, q>> \notin toggled)

\* What the code does give: a click on the toggle of a node changes that node
\* and leaves the other nodes on display as they are.
ToggleLeavesOtherNodes ==
    [][op' = "toggle_click"
       => /\ DOMAIN expanded' = DOMAIN expanded
          /\ Cardinality({q \in DOMAIN expanded : expanded'[q] # expanded[q]}) = 1]_vars

(***************************************************************************)
(* Dispatches and control actions                                          *)
(***************************************************************************)
\* the requests not yet resolved, per endpoint and address, after one more GET
\* to endpoint e at the configured address
OneMoreGet(e) == [pending_to EXCEPT ![e][server_address] = @ + 1]

\* C23: every refresh dispatch issues exactly one GET to /execution_plans at
\* the address configured at the moment of the dispatch and none to another
\* endpoint; it is added to the requests in flight whatever is in flight
\* already (n dispatches, n requests); each of the buttons Reset Cache,
\* Shutdown Server, Start Trace, Stop Trace issues exactly one GET to its own
\* endpoint at the configured address and none to /execution_plans.
DispatchIssuesOneGet ==
    [][/\ op' = "refresh_click" =>
            /\ Len(sent_to') = Len(sent_to) + 1
            /\ sent_to'[Len(sent_to')] = server_address
            /\ Cardinality(in_flight') = Cardinality(in_flight) + 1
            /\ Len(sent_to') \in in_flight'
            /\ pending_to' = pending_to
       /\ \A e \in {"reset_cache", "shutdown", "start_trace", "stop_trace"} :
            op' = ClickOp(e) =>
                /\ pending_to' = OneMoreGet(e)
                /\ sent_to' = sent_to
                /\ in_flight' = in_flight]_vars

\* two refreshes in flight at once, sent to different addresses
TwoRefreshesInFlight ==
    /\ op = "refresh_click"
    /\ Cardinality(in_flight) = 2
    /\ sent_to = <<"s1", "s2">>

DisplayState ==
    <<cache_info, cache_usage, system_info, execution_plans, selected_plan_id, trace_active>>

\* C24: the result of a /reset_cache, /shutdown or /cache_stats call makes
\* exactly one toast call and leaves cache info, cache usage, system info, the
\* plan list, the plan selection and trace_active as they were.
ControlResultOnlyNotifies ==
    [][op' \in {"resolve_control_ok", "resolve_control_err"} =>
            /\ Len(toast_calls') = 1
            /\ DisplayState' = DisplayState]_vars

\* a reset has succeeded while the cache info panel was loaded
ResetWithInfoLoaded ==
    /\ op = "resolve_control_ok"
    /\ pending_to["reset_cache"]["s1"] = 0
    /\ pending["shutdown"] = 0 /\ pending["cache_stats"] = 0
    /\ cache_info # NoInfo
    /\ toast_calls = <<"response.message">>

(***************************************************************************)
(* The display name                                                        *)
(***************************************************************************)
\* the label the name starts with: the stats display name when there is one,
\* otherwise the first 8 characters of the id and "..." when the id has more
\* than 8 characters, otherwise the id
ExpectedLabel(plan) ==
    IF plan.stats.some /\ plan.stats.v.display_name # <<>>
    THEN plan.stats.v.display_name
    ELSE IF Len(plan.id) > 8
         THEN SubSeq(plan.id, 1, 8) \o <<".", ".", ".">>
         ELSE plan.id

\* C25: display_name returns the stats display name when stats are present and
\* the name is not empty, otherwise the first 8 characters of the id followed
\* by "..." when the id has more than 8 characters, otherwise the whole id;
\* in each case followed by the formatted time in parentheses.
DisplayNameAsSpecified ==
    op = "display_name" =>
        /\ ~shown_name.panic
        /\ shown_name.text = with_time(ExpectedLabel(named_plan), named_plan.formatted_time)

IsAscii(str) == \A i \in DOMAIN str : len_utf8(str[i]) = 1

\* (the same, for the plans whose id has one-byte characters only)
DisplayNameOfAsciiId ==
    (op = "display_name" /\ IsAscii(named_plan.id)) =>
        /\ ~shown_name.panic
        /\ shown_name.text = with_time(ExpectedLabel(named_plan), named_plan.formatted_time)

\* a name that does not fall back to the id never fails
DisplayNameOfStats ==
    (op = "display_name" /\ named_plan.stats.some /\ named_plan.stats.v.display_name # <<>>) =>
        /\ ~shown_name.panic
        /\ shown_name.text = with_time(<<"q", "1">>, named_plan.formatted_time)

(***************************************************************************)
(* The selection in settled states                                        *)
(***************************************************************************)
\* execution_plans.rs:555-562: the plan view shows "Selected plan not found"
SelectedPlanNotFound ==
    /\ execution_plans.some
    /\ selected_plan_id # ""
    /\ selected_plan_id \notin Ids(execution_plans.v)

\* C26: in every state with no run of the auto-select Effect pending and a plan
\* list loaded, the selected id is empty or the id of a plan of the list, and
\* is not empty when the list is not empty; so "Selected plan not found" is
\* not shown in such a state.
SettledSelectionInList ==
    (~effect_pending /\ execution_plans.some) =>
        /\ selected_plan_id = "" \/ selected_plan_id \in Ids(execution_plans.v)
        /\ execution_plans.v # <<>> => selected_plan_id # ""
        /\ ~SelectedPlanNotFound

\* (the same, for a list that is not empty)
SettledSelectionInNonEmptyList ==
    (~effect_pending /\ execution_plans.some /\ execution_plans.v # <<>>) =>
        selected_plan_id \in Ids(execution_plans.v)

(***************************************************************************)
(* The toasts                                                              *)
(***************************************************************************)
ToastsSettled == ~add_effect_pending /\ ~remove_effect_pending

\* C27: every call of show_success / show_error / show_info results in its
\* toast being inserted into the toasts map, also when a handler makes several
\* calls before the add Effect runs: once the Effects have run, every toast
\* created so far has been inserted.
NoNotificationLost ==
    ToastsSettled => \A id \in 1..next_toast : id \in inserted

\* (the last call of each handler does result in its toast being inserted)
LastNotificationShown ==
    (ToastsSettled /\ next_toast > 0) => next_toast \in inserted

InFlightTo(i, a) ==
    IF i = "execution_plans"
    THEN \E r \in in_flight : sent_to[r] = a
    ELSE pending_to[i][a] > 0

ConnectItems == {"execution_plans", "cache_info", "system_info"}

\* C29: after the user has connected to the configured address, once the
\* fetches sent to that address have resolved, the displayed plan list, cache
\* info and system info come from that address: a response of a request sent
\* to the address configured before does not overwrite them.
DisplayedFromConfiguredAddress ==
    (/\ connected = server_address
     /\ \A i \in ConnectItems : ~InFlightTo(i, server_address)) =>
        \A i \in ConnectItems : origin[i] = server_address

(***************************************************************************)
(* The trace flag                                                          *)
(***************************************************************************)
\* C30: trace_active changes only when a trace call succeeds: a step that
\* changes it is the handling of a /start_trace or /stop_trace response of a
\* request that succeeded on the network, and the handling of a failed call
\* leaves it unchanged; Stop is dispatched only while it is true and Start
\* only while it is false.
TraceActiveOnlyOnSuccess ==
    [][/\ trace_active' # trace_active =>
            (op' = "resolve_trace_ok" /\ last_status' = "2xx")
       /\ (op' \in {"resolve_trace_ok", "resolve_trace_err"} /\ last_status' = "failed") =>
            trace_active' = trace_active
       /\ op' = "stop_trace_click" => trace_active
       /\ op' = "start_trace_click" => ~trace_active]_vars

\* (the same with "succeeds" read as "fetch_api returns Ok": trace_active
\* changes only in the Ok arm, and the Err arm leaves it unchanged)
TraceActiveOnlyInOkArm ==
    [][/\ trace_active' # trace_active => op' = "resolve_trace_ok"
       /\ op' = "resolve_trace_err" => trace_active' = trace_active
       /\ op' = "stop_trace_click" => trace_active
       /\ op' = "start_trace_click" => ~trace_active]_vars

====
